---- MODULE Spec2Model ----
(***************************************************************************)
(* small-regex: pattern text -> AST (parser.rs) -> instruction sequence    *)
(* (compiler.rs) -> backtracking evaluation (evaluator.rs).                *)
(*                                                                         *)
(* Each of the three stages is modelled as a deterministic step machine    *)
(* over the locals of its function.  The actions of the specifications     *)
(* apply one step; the pure operators Parse, Compile and Outcome run the   *)
(* same steps to completion.                                               *)
(*                                                                         *)
(* A Rust panic (unwrap on None, panic!()) ends the run with the variable  *)
(* panic naming the place.  Unbounded recursion of eval, which ends the    *)
(* process by exhausting the call stack, is recorded as "stack_overflow"   *)
(* at the first call that re-enters eval with the arguments of a call that *)
(* is still active (eval is deterministic: such a call repeats itself).    *)
(***************************************************************************)
EXTENDS Integers, Sequences, FiniteSets, TLC

VARIABLES
    phase,          \* "parse" | "compile" | "ready" | "eval" | "done"
    panic,          \* "" or the place of the panic / abort that ended the run
    pattern,        \* parse: the pattern, a sequence of characters
    pos,            \* parse: number of characters scanned by the for loop
    seq,            \* parse: current concatenation context
    seq_or,         \* parse: current alternation context
    stack,          \* parse: saved (seq, seq_or) contexts
    is_escape,      \* parse: escape flag
    ast,            \* the AST handed to compile
    p_counter,      \* Compiler.p_counter
    instructions,   \* Compiler.instructions, then the program given to eval
    tasks,          \* compile: the pending work of the recursive descent
    chars,          \* eval: the input characters
    frames,         \* eval: the call stack of eval, innermost frame last
    ret             \* eval: "none" or the value the last finished call returned

vars == <<phase, panic, pattern, pos, seq, seq_or, stack, is_escape, ast,
          p_counter, instructions, tasks, chars, frames, ret>>

parserVars == <<pattern, pos, seq, seq_or, stack, is_escape>>
compilerVars == <<p_counter, instructions, tasks>>
evalVars == <<chars, frames, ret>>

----------------------------------------------------------------------------
(* Bounds of the model. *)

MaxPatLen == 5
MaxNodes == 4
MaxInputLen == 2
MaxProgLen == 2

----------------------------------------------------------------------------
(* Sequences helpers. *)

Front(s) == SubSeq(s, 1, Len(s) - 1)
Last(s) == s[Len(s)]
SeqsUpTo(S, n) == UNION {[1..k -> S] : k \in 0..n}

RECURSIVE Reverse(_)
Reverse(s) == IF s = <<>> THEN <<>> ELSE Append(Reverse(Tail(s)), Head(s))

----------------------------------------------------------------------------
(* parser.rs: the AST.  A node is a record of its variant t, its character *)
(* c (Char only) and its children kids (Plus, Star, Question: one; Or:     *)
(* two; Seq: any number).                                                  *)

AstChar(c) == [t |-> "Char", c |-> c, kids |-> <<>>]
AstPlus(e) == [t |-> "Plus", c |-> "", kids |-> <<e>>]
AstStar(e) == [t |-> "Star", c |-> "", kids |-> <<e>>]
AstQuestion(e) == [t |-> "Question", c |-> "", kids |-> <<e>>]
AstOr(e1, e2) == [t |-> "Or", c |-> "", kids |-> <<e1, e2>>]
AstSeq(v) == [t |-> "Seq", c |-> "", kids |-> v]
\* no AST: before parse has returned one
NoAst == [t |-> "None", c |-> "", kids |-> <<>>]

\* the characters parse_escape accepts
EscapeChars == {"\\", "(", ")", "|", "+", "*", "?"}
QualifierChars == {"+", "*", "?"}

\* The locals of parse as one record.
ParserState == [seq |-> seq, seq_or |-> seq_or, stack |-> stack,
                is_escape |-> is_escape, panic |-> panic]
ParserInit == [seq |-> <<>>, seq_or |-> <<>>, stack |-> <<>>,
               is_escape |-> FALSE, panic |-> ""]

ParsePanic(ps, where) == [ps EXCEPT !.panic = where]

\* parse_qualifier(c, prev)
parse_qualifier(c, prev) ==
    CASE c = "+" -> AstPlus(prev)
      [] c = "*" -> AstStar(prev)
      [] c = "?" -> AstQuestion(prev)

\* fold_or's loop over the reversed rest: ast = Or(s, ast)
RECURSIVE FoldLoop(_, _)
FoldLoop(rest, acc) ==
    IF rest = <<>> THEN acc ELSE FoldLoop(Tail(rest), AstOr(Head(rest), acc))

\* fold_or(seq_or) for a non-empty seq_or; on an empty one pop().unwrap() panics
FoldWithoutReverse(so) ==
    IF Len(so) > 1 THEN FoldLoop(Front(so), Last(so)) ELSE Last(so)
fold_or(so) ==
    IF Len(so) > 1 THEN FoldLoop(Reverse(Front(so)), Last(so)) ELSE Last(so)

\* is_escape branch: is_escape = false; seq.push(parse_escape(c))
EscapeAcceptsAll(ps, c) ==
    [ps EXCEPT !.is_escape = FALSE, !.seq = Append(@, AstChar(c))]
StepEscape(ps, c) ==
    IF c \in EscapeChars
    THEN [ps EXCEPT !.is_escape = FALSE, !.seq = Append(@, AstChar(c))]
    ELSE ParsePanic([ps EXCEPT !.is_escape = FALSE], "parse_escape")

\* '+' | '*' | '?': seq.pop().unwrap(), parse_qualifier, seq.push
QualifierOnEmptyIgnored(ps, c) ==
    IF ps.seq = <<>>
    THEN ps
    ELSE [ps EXCEPT !.seq = Append(Front(@), parse_qualifier(c, Last(@)))]
StepQualifier(ps, c) ==
    IF ps.seq = <<>>
    THEN ParsePanic(ps, "qualifier_pop")
    ELSE [ps EXCEPT !.seq = Append(Front(@), parse_qualifier(c, Last(@)))]

\* '|': seq_or.push(Seq(seq)); seq = new
StepBar(ps) ==
    [ps EXCEPT !.seq_or = Append(@, AstSeq(ps.seq)), !.seq = <<>>]

\* '(': stack.push((seq, seq_or)); both = new
StepOpen(ps) ==
    [ps EXCEPT !.stack = Append(@, [seq |-> ps.seq, seq_or |-> ps.seq_or]),
               !.seq = <<>>, !.seq_or = <<>>]

\* ')': stack.pop().unwrap(); close seq unless empty; prev.push(fold_or(seq_or))
CloseBody(ps) ==
    LET top == Last(ps.stack)
        so == IF ps.seq # <<>> THEN Append(ps.seq_or, AstSeq(ps.seq))
              ELSE ps.seq_or
    IN  IF so = <<>>
        THEN ParsePanic([ps EXCEPT !.stack = Front(@)], "fold_or")
        ELSE [ps EXCEPT !.stack = Front(@),
                        !.seq = Append(top.seq, fold_or(so)),
                        !.seq_or = top.seq_or]
CloseOnEmptyStackIgnored(ps) ==
    IF ps.stack = <<>> THEN ps ELSE CloseBody(ps)
StepClose(ps) ==
    IF ps.stack = <<>> THEN ParsePanic(ps, "stack_pop") ELSE CloseBody(ps)

\* '\\': is_escape = true
StepBackslash(ps) == [ps EXCEPT !.is_escape = TRUE]

\* any other character: seq.push(Char(c))
StepLiteral(ps, c) == [ps EXCEPT !.seq = Append(@, AstChar(c))]

\* the body of the for loop of parse, for one character
ParseChar(ps, c) ==
    IF ps.is_escape THEN StepEscape(ps, c)
    ELSE CASE c \in QualifierChars -> StepQualifier(ps, c)
           [] c = "|" -> StepBar(ps)
           [] c = "(" -> StepOpen(ps)
           [] c = ")" -> StepClose(ps)
           [] c = "\\" -> StepBackslash(ps)
           [] OTHER -> StepLiteral(ps, c)

\* after the loop: panic on an unclosed group, close seq, fold.
\* The result is [panic, ast].
FinishKeepsEmptyAlternative(ps) ==
    IF ps.stack # <<>> THEN [panic |-> "unclosed", ast |-> NoAst]
    ELSE [panic |-> "", ast |-> fold_or(Append(ps.seq_or, AstSeq(ps.seq)))]
FinishRejectsPendingEscape(ps) ==
    IF ps.is_escape \/ ps.stack # <<>> THEN [panic |-> "unclosed", ast |-> NoAst]
    ELSE LET so == IF ps.seq # <<>> THEN Append(ps.seq_or, AstSeq(ps.seq))
                   ELSE ps.seq_or
         IN  IF so = <<>> THEN [panic |-> "fold_or", ast |-> NoAst]
             ELSE [panic |-> "", ast |-> fold_or(so)]
ParseFinish(ps) ==
    IF ps.stack # <<>> THEN [panic |-> "unclosed", ast |-> NoAst]
    ELSE LET so == IF ps.seq # <<>> THEN Append(ps.seq_or, AstSeq(ps.seq))
                   ELSE ps.seq_or
         IN  IF so = <<>> THEN [panic |-> "fold_or", ast |-> NoAst]
             ELSE [panic |-> "", ast |-> fold_or(so)]

\* parse(pattern) as a function: [panic, ast]
RECURSIVE ParseFrom(_, _, _)
ParseFrom(pat, i, ps) ==
    IF ps.panic # "" THEN [panic |-> ps.panic, ast |-> NoAst]
    ELSE IF i > Len(pat) THEN ParseFinish(ps)
    ELSE ParseFrom(pat, i + 1, ParseChar(ps, pat[i]))
Parse(pat) == ParseFrom(pat, 1, ParserInit)

----------------------------------------------------------------------------
(* The actions of parse: one per arm of the loop body, and the end. *)

Scanning == phase = "parse" /\ pos < Len(pattern)
Cur == pattern[pos + 1]

\* The effect of one loop iteration on the variables.
ParseApply(ps) ==
    /\ seq' = ps.seq
    /\ seq_or' = ps.seq_or
    /\ stack' = ps.stack
    /\ is_escape' = ps.is_escape
    /\ panic' = ps.panic
    /\ pos' = pos + 1
    /\ phase' = IF ps.panic # "" THEN "done" ELSE "parse"
    /\ UNCHANGED <<pattern, ast, compilerVars, evalVars>>

ParseEscaped == Scanning /\ is_escape /\ ParseApply(StepEscape(ParserState, Cur))
ParseQualifier ==
    /\ Scanning /\ ~is_escape /\ Cur \in QualifierChars
    /\ ParseApply(StepQualifier(ParserState, Cur))
ParseBar == Scanning /\ ~is_escape /\ Cur = "|" /\ ParseApply(StepBar(ParserState))
ParseOpen == Scanning /\ ~is_escape /\ Cur = "(" /\ ParseApply(StepOpen(ParserState))
ParseClose == Scanning /\ ~is_escape /\ Cur = ")" /\ ParseApply(StepClose(ParserState))
ParseBackslash ==
    Scanning /\ ~is_escape /\ Cur = "\\" /\ ParseApply(StepBackslash(ParserState))
ParseLiteral ==
    /\ Scanning /\ ~is_escape
    /\ Cur \notin QualifierChars \cup {"|", "(", ")", "\\"}
    /\ ParseApply(StepLiteral(ParserState, Cur))

\* gen_code's task list for an AST: gen_expr(ast), then push Match
GenCodeTasks(a) == <<[k |-> "gen_expr", ast |-> a, n |-> 0],
                     [k |-> "match", ast |-> NoAst, n |-> 0]>>

\* parse returns (or panics); pattern_match hands the AST to compile
ParseEnd ==
    /\ phase = "parse" /\ pos = Len(pattern)
    /\ LET r == ParseFinish(ParserState) IN
        /\ panic' = r.panic
        /\ ast' = r.ast
        /\ phase' = IF r.panic # "" THEN "done" ELSE "compile"
        /\ tasks' = IF r.panic # "" THEN <<>> ELSE GenCodeTasks(r.ast)
    /\ UNCHANGED <<parserVars, p_counter, instructions, evalVars>>

ParseNext ==
    \/ ParseEscaped
    \/ ParseQualifier
    \/ ParseBar
    \/ ParseOpen
    \/ ParseClose
    \/ ParseBackslash
    \/ ParseLiteral
    \/ ParseEnd

PatternChars == {"a", "b", "(", ")", "|", "*", "+", "?", "\\"}
Patterns == SeqsUpTo(PatternChars, MaxPatLen)

InitPattern ==
    /\ phase = "parse" /\ panic = ""
    /\ pattern \in Patterns
    /\ pos = 0 /\ seq = <<>> /\ seq_or = <<>> /\ stack = <<>> /\ is_escape = FALSE
    /\ ast = NoAst
    /\ p_counter = 0 /\ instructions = <<>> /\ tasks = <<>>
    /\ chars = <<>> /\ frames = <<>> /\ ret = "none"

SpecParse == InitPattern /\ [][ParseNext]_vars

----------------------------------------------------------------------------
(* compiler.rs: instructions and the Compiler.  Addresses are 0-based as   *)
(* in the source: the instruction at address a is instructions[a + 1].     *)

InstChar(c) == [op |-> "Char", c |-> c, x |-> 0, y |-> 0]
InstMatch == [op |-> "Match", c |-> "", x |-> 0, y |-> 0]
InstJump(x) == [op |-> "Jump", c |-> "", x |-> x, y |-> 0]
InstSplit(x, y) == [op |-> "Split", c |-> "", x |-> x, y |-> y]

\* The Compiler (p_counter, instructions) with the work its recursion still
\* has to do (tasks, next first).
CompilerState == [p_counter |-> p_counter, instructions |-> instructions,
                  tasks |-> tasks]

Task(k, a, n) == [k |-> k, ast |-> a, n |-> n]

\* if let Some(Split(_, right)) = instructions.get_mut(at) { *right = v }
PatchSplit(ins, at, v) ==
    IF at < Len(ins) /\ ins[at + 1].op = "Split"
    THEN [ins EXCEPT ![at + 1].y = v]
    ELSE ins

\* if let Some(Jump(arg)) = instructions.get_mut(at) { *arg = v }
PatchJump(ins, at, v) ==
    IF at < Len(ins) /\ ins[at + 1].op = "Jump"
    THEN [ins EXCEPT ![at + 1].x = v]
    ELSE ins

\* gen_char: p_counter += 1; push Char(c)
gen_char(cs, c) ==
    [cs EXCEPT !.p_counter = @ + 1,
               !.instructions = Append(@, InstChar(c)),
               !.tasks = Tail(@)]

\* gen_star up to the recursive call: push Split(p_counter, 0)
gen_star(cs, e) ==
    [cs EXCEPT !.p_counter = @ + 1,
               !.instructions = Append(@, InstSplit(cs.p_counter + 1, 0)),
               !.tasks = <<Task("gen_expr", e, 0),
                           Task("star_end", NoAst, cs.p_counter)>> \o Tail(@)]

\* gen_star after the recursive call: push Jump(split_count), patch the Split
StarEndPatchesPastProgram(cs, split_count) ==
    [cs EXCEPT !.p_counter = @ + 1,
               !.instructions = PatchSplit(Append(@, InstJump(split_count)),
                                           split_count, cs.p_counter + 2),
               !.tasks = Tail(@)]
gen_star_end(cs, split_count) ==
    [cs EXCEPT !.p_counter = @ + 1,
               !.instructions = PatchSplit(Append(@, InstJump(split_count)),
                                           split_count, cs.p_counter + 1),
               !.tasks = Tail(@)]

\* gen_plus up to the recursive call: left = p_counter
gen_plus(cs, e) ==
    [cs EXCEPT !.tasks = <<Task("gen_expr", e, 0),
                           Task("plus_end", NoAst, cs.p_counter)>> \o Tail(@)]

\* gen_plus after the recursive call: push Split(left, p_counter)
gen_plus_end(cs, left) ==
    [cs EXCEPT !.p_counter = @ + 1,
               !.instructions = Append(@, InstSplit(left, cs.p_counter + 1)),
               !.tasks = Tail(@)]

\* gen_question up to the recursive call: push Split(p_counter, 0)
gen_question(cs, e) ==
    [cs EXCEPT !.p_counter = @ + 1,
               !.instructions = Append(@, InstSplit(cs.p_counter + 1, 0)),
               !.tasks = <<Task("gen_expr", e, 0),
                           Task("question_end", NoAst, cs.p_counter)>> \o Tail(@)]

\* gen_question after the recursive call: patch the Split
gen_question_end(cs, split_count) ==
    [cs EXCEPT !.instructions = PatchSplit(@, split_count, cs.p_counter),
               !.tasks = Tail(@)]

\* gen_or up to the first recursive call: push Split(p_counter, 0)
gen_or(cs, expr1, expr2) ==
    [cs EXCEPT !.p_counter = @ + 1,
               !.instructions = Append(@, InstSplit(cs.p_counter + 1, 0)),
               !.tasks = <<Task("gen_expr", expr1, 0),
                           Task("or_mid", expr2, cs.p_counter)>> \o Tail(@)]

\* gen_or between the recursive calls: push Jump(0), patch the Split
OrMidSplitToJump(cs, split_counter, expr2) ==
    [cs EXCEPT !.p_counter = @ + 1,
               !.instructions = PatchSplit(Append(@, InstJump(0)),
                                           split_counter, cs.p_counter),
               !.tasks = <<Task("gen_expr", expr2, 0),
                           Task("or_end", NoAst, cs.p_counter)>> \o Tail(@)]
gen_or_mid(cs, split_counter, expr2) ==
    [cs EXCEPT !.p_counter = @ + 1,
               !.instructions = PatchSplit(Append(@, InstJump(0)),
                                           split_counter, cs.p_counter + 1),
               !.tasks = <<Task("gen_expr", expr2, 0),
                           Task("or_end", NoAst, cs.p_counter)>> \o Tail(@)]

\* gen_or after the second recursive call: patch the Jump
OrEndLeavesPlaceholder(cs, jump_counter) == [cs EXCEPT !.tasks = Tail(@)]
gen_or_end(cs, jump_counter) ==
    [cs EXCEPT !.instructions = PatchJump(@, jump_counter, cs.p_counter),
               !.tasks = Tail(@)]

\* gen_seq: gen_expr on each element in order
gen_seq(cs, v) ==
    [cs EXCEPT !.tasks = [i \in 1..Len(v) |-> Task("gen_expr", v[i], 0)]
                         \o Tail(@)]

\* gen_code after gen_expr: push Match (p_counter is left as it is)
MatchNotPushed(cs) == [cs EXCEPT !.tasks = Tail(@)]
gen_match(cs) ==
    [cs EXCEPT !.instructions = Append(@, InstMatch), !.tasks = Tail(@)]

\* gen_expr: dispatch on the variant
gen_expr(cs, a) ==
    CASE a.t = "Char" -> gen_char(cs, a.c)
      [] a.t = "Or" -> gen_or(cs, a.kids[1], a.kids[2])
      [] a.t = "Plus" -> gen_plus(cs, a.kids[1])
      [] a.t = "Star" -> gen_star(cs, a.kids[1])
      [] a.t = "Question" -> gen_question(cs, a.kids[1])
      [] a.t = "Seq" -> gen_seq(cs, a.kids)

\* one step of the compiler: the next pending piece of work
CompileStep(cs) ==
    LET tk == Head(cs.tasks) IN
    CASE tk.k = "gen_expr" -> gen_expr(cs, tk.ast)
      [] tk.k = "star_end" -> gen_star_end(cs, tk.n)
      [] tk.k = "plus_end" -> gen_plus_end(cs, tk.n)
      [] tk.k = "question_end" -> gen_question_end(cs, tk.n)
      [] tk.k = "or_mid" -> gen_or_mid(cs, tk.n, tk.ast)
      [] tk.k = "or_end" -> gen_or_end(cs, tk.n)
      [] tk.k = "match" -> gen_match(cs)

\* compile(ast): Compiler::default(), gen_code, return instructions
RECURSIVE CompileRun(_)
CompileRun(cs) == IF cs.tasks = <<>> THEN cs ELSE CompileRun(CompileStep(cs))
CompileFinal(a) ==
    CompileRun([p_counter |-> 0, instructions |-> <<>>, tasks |-> GenCodeTasks(a)])
Compile(a) == CompileFinal(a).instructions

----------------------------------------------------------------------------
(* The actions of compile: one per piece of each gen_* function. *)

Compiling == phase = "compile" /\ tasks # <<>>
NextTask == Head(tasks)

CompileApply(cs) ==
    /\ p_counter' = cs.p_counter
    /\ instructions' = cs.instructions
    /\ tasks' = cs.tasks
    /\ phase' = IF cs.tasks = <<>> THEN "ready" ELSE "compile"
    /\ UNCHANGED <<panic, parserVars, ast, evalVars>>

GenExprOf(t) == Compiling /\ NextTask.k = "gen_expr" /\ NextTask.ast.t = t

GenChar == GenExprOf("Char") /\ CompileApply(gen_char(CompilerState, NextTask.ast.c))
GenStar ==
    GenExprOf("Star") /\ CompileApply(gen_star(CompilerState, NextTask.ast.kids[1]))
GenStarEnd ==
    /\ Compiling /\ NextTask.k = "star_end"
    /\ CompileApply(gen_star_end(CompilerState, NextTask.n))
GenPlus ==
    GenExprOf("Plus") /\ CompileApply(gen_plus(CompilerState, NextTask.ast.kids[1]))
GenPlusEnd ==
    /\ Compiling /\ NextTask.k = "plus_end"
    /\ CompileApply(gen_plus_end(CompilerState, NextTask.n))
GenQuestion ==
    /\ GenExprOf("Question")
    /\ CompileApply(gen_question(CompilerState, NextTask.ast.kids[1]))
GenQuestionEnd ==
    /\ Compiling /\ NextTask.k = "question_end"
    /\ CompileApply(gen_question_end(CompilerState, NextTask.n))
GenOr ==
    /\ GenExprOf("Or")
    /\ CompileApply(gen_or(CompilerState, NextTask.ast.kids[1], NextTask.ast.kids[2]))
GenOrMid ==
    /\ Compiling /\ NextTask.k = "or_mid"
    /\ CompileApply(gen_or_mid(CompilerState, NextTask.n, NextTask.ast))
GenOrEnd ==
    /\ Compiling /\ NextTask.k = "or_end"
    /\ CompileApply(gen_or_end(CompilerState, NextTask.n))
GenSeq == GenExprOf("Seq") /\ CompileApply(gen_seq(CompilerState, NextTask.ast.kids))
GenMatch == Compiling /\ NextTask.k = "match" /\ CompileApply(gen_match(CompilerState))

CompileNext ==
    \/ GenChar
    \/ GenStar
    \/ GenStarEnd
    \/ GenPlus
    \/ GenPlusEnd
    \/ GenQuestion
    \/ GenQuestionEnd
    \/ GenOr
    \/ GenOrMid
    \/ GenOrEnd
    \/ GenSeq
    \/ GenMatch

\* The ASTs of n nodes over the characters a and b.
AstChars == {"a", "b"}
RECURSIVE AstsOfSize(_), AstSeqsOfSize(_)
AstsOfSize(n) ==
    IF n < 1 THEN {}
    ELSE (IF n = 1 THEN {AstChar(c) : c \in AstChars} ELSE {})
         \cup {AstPlus(e) : e \in AstsOfSize(n - 1)}
         \cup {AstStar(e) : e \in AstsOfSize(n - 1)}
         \cup {AstQuestion(e) : e \in AstsOfSize(n - 1)}
         \cup UNION {{AstOr(e1, e2) : e1 \in AstsOfSize(j), e2 \in AstsOfSize(n - 1 - j)}
                     : j \in 1..(n - 2)}
         \cup {AstSeq(v) : v \in AstSeqsOfSize(n - 1)}
\* the sequences of ASTs of n nodes in all
AstSeqsOfSize(n) ==
    IF n = 0 THEN {<<>>}
    ELSE UNION {{<<h>> \o t : h \in AstsOfSize(j), t \in AstSeqsOfSize(n - j)}
                : j \in 1..n}
Asts == UNION {AstsOfSize(n) : n \in 1..MaxNodes}

InitAst ==
    /\ phase = "compile" /\ panic = ""
    /\ pattern = <<>> /\ pos = 0
    /\ seq = <<>> /\ seq_or = <<>> /\ stack = <<>> /\ is_escape = FALSE
    /\ ast \in Asts
    /\ p_counter = 0 /\ instructions = <<>> /\ tasks = GenCodeTasks(ast)
    /\ chars = <<>> /\ frames = <<>> /\ ret = "none"


----------------------------------------------------------------------------
(* evaluator.rs: eval.  A frame is one active call of eval: its arguments  *)
(* (start_pc, start_index), its locals p_counter and index (pc, index),    *)
(* and where it stands in the Split arm: branch 0 while it runs its loop,  *)
(* 1 while eval(counter1) runs, 2 while eval(counter2) runs.               *)

Frame(pc, index) == [pc |-> pc, index |-> index, branch |-> 0,
                     start_pc |-> pc, start_index |-> index]

\* The evaluation as one record.
EvalState == [frames |-> frames, ret |-> ret, panic |-> panic]
EvalInit(pc, index) == [frames |-> <<Frame(pc, index)>>, ret |-> "none", panic |-> ""]

Top(vm) == Last(vm.frames)
SetTop(vm, f) == [vm EXCEPT !.frames = Append(Front(@), f)]
\* instructions.get(p_counter) is Some
Fetchable(vm, prog) == Top(vm).pc < Len(prog)
Fetched(vm, prog) == prog[Top(vm).pc + 1]

\* instructions.get(p_counter).unwrap() on None
StepFetchPanic(vm) == [vm EXCEPT !.panic = "eval_fetch"]

\* return v: the call ends and hands v to its caller
Return(vm, v) == [vm EXCEPT !.frames = Front(@), !.ret = v]

\* the recursive call eval(instructions, chars, pc, index)
Call(vm, pc, index) ==
    IF \E i \in 1..Len(vm.frames) :
          vm.frames[i].start_pc = pc /\ vm.frames[i].start_index = index
    THEN [vm EXCEPT !.panic = "stack_overflow"]
    ELSE [vm EXCEPT !.frames = Append(@, Frame(pc, index)), !.ret = "none"]

\* Char(c): chars.get(index).unwrap(); equal: advance both; else return false
StepChar(vm, inst, cs) ==
    LET f == Top(vm) IN
    IF f.index >= Len(cs) THEN [vm EXCEPT !.panic = "eval_index"]
    ELSE IF inst.c = cs[f.index + 1]
    THEN SetTop(vm, [f EXCEPT !.pc = @ + 1, !.index = @ + 1])
    ELSE Return(vm, "false")

\* Match: return true
MatchOnlyAtEnd(vm, cs) ==
    Return(vm, IF Top(vm).index = Len(cs) THEN "true" ELSE "false")
StepMatch(vm, cs) == Return(vm, "true")

\* Jump(counter): p_counter = counter
StepJump(vm, inst) == SetTop(vm, [Top(vm) EXCEPT !.pc = inst.x])

\* Split(counter1, counter2): the left operand of ||
StepSplit(vm, inst) ==
    Call(SetTop(vm, [Top(vm) EXCEPT !.branch = 1]), inst.x, Top(vm).index)

\* eval(counter1) has returned: true ends the call, false evaluates eval(counter2)
SecondTriedAlways(vm, inst) ==
    Call(SetTop(vm, [Top(vm) EXCEPT !.branch = 2]), inst.y, Top(vm).index)
StepFirstReturned(vm, inst) ==
    IF vm.ret = "true" THEN Return(vm, "true")
    ELSE Call(SetTop(vm, [Top(vm) EXCEPT !.branch = 2]), inst.y, Top(vm).index)

\* eval(counter2) has returned: its value is the value of ||
StepSecondReturned(vm) == Return(vm, vm.ret)

\* one step of eval
EvalStep(vm, prog, cs) ==
    IF ~Fetchable(vm, prog) THEN StepFetchPanic(vm)
    ELSE LET inst == Fetched(vm, prog) IN
         CASE inst.op = "Char" -> StepChar(vm, inst, cs)
           [] inst.op = "Match" -> StepMatch(vm, cs)
           [] inst.op = "Jump" -> StepJump(vm, inst)
           [] inst.op = "Split" ->
                CASE Top(vm).branch = 0 -> StepSplit(vm, inst)
                  [] Top(vm).branch = 1 -> StepFirstReturned(vm, inst)
                  [] Top(vm).branch = 2 -> StepSecondReturned(vm)

EvalEnded(vm) == vm.frames = <<>> \/ vm.panic # ""

\* What a call of eval comes to: "true" or "false" when it returns, the place
\* of the panic or abort when it does not, "hang" when its loop never ends
\* (the same state of the evaluation comes back).
RECURSIVE EvalRun(_, _, _, _)
EvalRun(vm, prog, cs, seen) ==
    IF vm.panic # "" THEN vm.panic
    ELSE IF vm.frames = <<>> THEN vm.ret
    ELSE IF vm \in seen THEN "hang"
    ELSE EvalRun(EvalStep(vm, prog, cs), prog, cs, seen \cup {vm})
Outcome(prog, cs, pc, index) == EvalRun(EvalInit(pc, index), prog, cs, {})

----------------------------------------------------------------------------
(* The actions of eval: one per arm of the match, the Split arm in the     *)
(* three places it can stand.                                              *)

InputChars == {"a", "b"}
Inputs == SeqsUpTo(InputChars, MaxInputLen)

\* pattern_match: eval(&instructions, &chars, 0, 0), for any line
EvalStart ==
    /\ phase = "ready"
    /\ chars' \in Inputs
    /\ frames' = <<Frame(0, 0)>>
    /\ ret' = "none"
    /\ phase' = "eval"
    /\ UNCHANGED <<panic, parserVars, ast, compilerVars>>

Evaluating == phase = "eval" /\ frames # <<>>
CurInst == Fetched(EvalState, instructions)
AtInst(op) == Evaluating /\ Fetchable(EvalState, instructions) /\ CurInst.op = op

EvalApply(vm) ==
    /\ frames' = vm.frames
    /\ ret' = vm.ret
    /\ panic' = vm.panic
    /\ phase' = IF EvalEnded(vm) THEN "done" ELSE "eval"
    /\ UNCHANGED <<parserVars, ast, compilerVars, chars>>

EvalFetchPanic ==
    /\ Evaluating /\ ~Fetchable(EvalState, instructions)
    /\ EvalApply(StepFetchPanic(EvalState))
EvalChar == AtInst("Char") /\ EvalApply(StepChar(EvalState, CurInst, chars))
EvalMatch == AtInst("Match") /\ EvalApply(StepMatch(EvalState, chars))
EvalJump == AtInst("Jump") /\ EvalApply(StepJump(EvalState, CurInst))
EvalSplit ==
    /\ AtInst("Split") /\ Last(frames).branch = 0
    /\ EvalApply(StepSplit(EvalState, CurInst))
EvalFirstReturned ==
    /\ AtInst("Split") /\ Last(frames).branch = 1
    /\ EvalApply(StepFirstReturned(EvalState, CurInst))
EvalSecondReturned ==
    /\ AtInst("Split") /\ Last(frames).branch = 2
    /\ EvalApply(StepSecondReturned(EvalState))

EvalNext ==
    \/ EvalStart
    \/ EvalChar
    \/ EvalMatch
    \/ EvalJump
    \/ EvalSplit
    \/ EvalFirstReturned
    \/ EvalSecondReturned

\* The programs of at most MaxProgLen instructions, whatever their targets.
ProgInsts ==
    {InstChar(c) : c \in InputChars} \cup {InstMatch}
    \cup {InstJump(x) : x \in 0..MaxProgLen}
    \cup {InstSplit(x, y) : x \in 0..MaxProgLen, y \in 0..MaxProgLen}
Programs == SeqsUpTo(ProgInsts, MaxProgLen)

InitProgram ==
    /\ phase = "ready" /\ panic = ""
    /\ pattern = <<>> /\ pos = 0
    /\ seq = <<>> /\ seq_or = <<>> /\ stack = <<>> /\ is_escape = FALSE
    /\ ast = NoAst
    /\ p_counter = 0 /\ instructions \in Programs /\ tasks = <<>>
    /\ chars = <<>> /\ frames = <<>> /\ ret = "none"

----------------------------------------------------------------------------
(* The specifications. *)

\* pattern_match: parse, compile, eval
Next == ParseNext \/ CompileNext \/ EvalNext
Spec == InitPattern /\ [][Next]_vars

\* compile and eval on any AST
SpecAst == InitAst /\ [][CompileNext \/ EvalNext]_vars

\* eval on any compiled AST and on any program
SpecEval == (InitAst \/ InitProgram) /\ [][CompileNext \/ EvalNext \/ EvalFetchPanic]_vars

----------------------------------------------------------------------------
(* What the properties below are stated with. *)

ParsePanics == {"parse_escape", "qualifier_pop", "stack_pop", "fold_or", "unclosed"}
\* parse is over: it returned an AST or it panicked
ParseOver == phase # "parse"
ParseFailed == panic \in ParsePanics
\* a call eval(instructions, chars, 0, 0) is over
EvalOver == phase = "done" /\ ~ParseFailed
\* what that call came to: "true", "false", or the place of its panic or abort
Result == IF panic # "" THEN panic ELSE ret

\* Paths of a program on an input: from (pc, index) a Char whose payload is
\* the character at index leads to (pc + 1, index + 1), a Jump to its target,
\* a Split to either target; nothing else moves.
PathSucc(prog, cs, cfg) ==
    LET pc == cfg[1]
        i == cfg[2]
    IN  IF pc >= Len(prog) THEN {}
        ELSE LET inst == prog[pc + 1] IN
             CASE inst.op = "Char" ->
                    IF i < Len(cs) /\ cs[i + 1] = inst.c THEN {<<pc + 1, i + 1>>} ELSE {}
               [] inst.op = "Jump" -> {<<inst.x, i>>}
               [] inst.op = "Split" -> {<<inst.x, i>>, <<inst.y, i>>}
               [] OTHER -> {}
RECURSIVE PathClosure(_, _, _)
PathClosure(prog, cs, S) ==
    LET N == S \cup UNION {PathSucc(prog, cs, cfg) : cfg \in S}
    IN  IF N = S THEN S ELSE PathClosure(prog, cs, N)
PathExists(prog, cs, pc, index) ==
    \E cfg \in PathClosure(prog, cs, {<<pc, index>>}) :
        cfg[1] < Len(prog) /\ prog[cfg[1] + 1].op = "Match"

\* The meaning of an AST: Ends(a, cs, I) is the set of input positions where a
\* string matched by a can end when it starts at a position of I.
RECURSIVE Ends(_, _, _), EndsSeq(_, _, _), EndsStar(_, _, _)
Ends(a, cs, I) ==
    CASE a.t = "Char" -> {i + 1 : i \in {j \in I : j < Len(cs) /\ cs[j + 1] = a.c}}
      [] a.t = "Seq" -> EndsSeq(a.kids, cs, I)
      [] a.t = "Or" -> Ends(a.kids[1], cs, I) \cup Ends(a.kids[2], cs, I)
      [] a.t = "Question" -> I \cup Ends(a.kids[1], cs, I)
      [] a.t = "Star" -> EndsStar(a.kids[1], cs, I)
      [] a.t = "Plus" -> EndsStar(a.kids[1], cs, Ends(a.kids[1], cs, I))
EndsSeq(v, cs, I) ==
    IF v = <<>> THEN I ELSE EndsSeq(Tail(v), cs, Ends(Head(v), cs, I))
EndsStar(x, cs, I) ==
    LET N == I \cup Ends(x, cs, I) IN IF N = I THEN I ELSE EndsStar(x, cs, N)
\* cs starts with a string matched by a
Matches(a, cs) == Ends(a, cs, {0}) # {}

\* The pattern read as text: character i is consumed by an escape when the
\* character before it is a backslash that is not itself consumed by one.
RECURSIVE EscapedAt(_, _)
EscapedAt(pat, i) == i > 1 /\ pat[i - 1] = "\\" /\ ~EscapedAt(pat, i - 1)
Unescaped(pat, i, c) == i \in 1..Len(pat) /\ pat[i] = c /\ ~EscapedAt(pat, i)
UnescapedIn(pat, i, S) == i \in 1..Len(pat) /\ pat[i] \in S /\ ~EscapedAt(pat, i)
\* unescaped "(" minus unescaped ")" among the first i characters
Depth(pat, i) ==
    Cardinality({j \in 1..i : Unescaped(pat, j, "(")})
    - Cardinality({j \in 1..i : Unescaped(pat, j, ")")})
Unbalanced(pat) ==
    \/ \E i \in 1..Len(pat) : Depth(pat, i) < 0
    \/ Depth(pat, Len(pat)) > 0

----------------------------------------------------------------------------
(* C1..C10 *)

\* C1: eval(program, input, 0, 0) on a program compiled from a parsed pattern
\* returns true if and only if some path from (0, 0) reaches a Match, input
\* being consumed only by Char instructions equal to the current character.
C1_EvalTrueIffPath ==
    EvalOver => (Result = "true" <=> PathExists(instructions, chars, 0, 0))

\* C2: a Char instruction executed with the index at or past the end of the
\* input makes that call return false; it never crashes the call.
C2_CharPastEndFails ==
    [][(AtInst("Char") /\ Last(frames).index >= Len(chars))
         => (panic' = "" /\ ret' = "false" /\ frames' = Front(frames))]_vars

\* C3: for every parsed pattern and every input, eval terminates and returns
\* true or false.  Stated apart from the reads past the end of the input (C2):
\* an evaluation that never reads past the end returns true or false.
C3_EvalTerminates ==
    (EvalOver /\ Result # "eval_index") => Result \in {"true", "false"}

\* C4: in the program compile returns for any AST, every Jump target and both
\* targets of every Split are addresses 0..N-1 and the last instruction is Match.
C4_TargetsInRange ==
    (phase \in {"ready", "eval", "done"} /\ ~ParseFailed) =>
        LET N == Len(instructions) IN
        /\ N >= 1
        /\ instructions[N].op = "Match"
        /\ \A i \in 1..N :
            /\ instructions[i].op = "Jump" => instructions[i].x \in 0..(N - 1)
            /\ instructions[i].op = "Split" =>
                 instructions[i].x \in 0..(N - 1) /\ instructions[i].y \in 0..(N - 1)

\* C4 witness: Or(e, Seq[]) is compiled: the Jump over the empty right side
\* targets the final Match.
C4_Witness ==
    /\ phase = "ready"
    /\ ast.t = "Or" /\ ast.kids[2] = AstSeq(<<>>)
    /\ \E i \in 1..Len(instructions) :
         instructions[i].op = "Jump" /\ instructions[i].x = Len(instructions) - 1

\* C5: the compiled program of Star(X), Plus(X), Question(X) evaluated from
\* (0, 0) returns true exactly when the input starts with zero or more, one or
\* more, zero or one strings matched by X; Star(X) and Question(X) on every input.
C5_QuantifierIdentities ==
    (EvalOver /\ ast.t \in {"Star", "Plus", "Question"})
        => (Result = "true" <=> Matches(ast, chars))

\* C6: the compiled program of Or(A, B) returns true on an input if and only if
\* the compiled program of A or the compiled program of B returns true on it.
C6_OrIffEither ==
    (EvalOver /\ ast.t = "Or")
        => (Result = "true" <=>
              \/ Outcome(Compile(ast.kids[1]), chars, 0, 0) = "true"
              \/ Outcome(Compile(ast.kids[2]), chars, 0, 0) = "true")

\* C7: when eval(program, x, 0, 0) returns true, eval(program, x ++ t, 0, 0)
\* returns true for every t.
C7_PrefixSemantics ==
    (EvalOver /\ Result = "true")
        => \A t \in Inputs : Outcome(instructions, chars \o t, 0, 0) = "true"

\* C7 witness: a compiled program returned true on an input of which it
\* already matches a proper prefix, and it does not match without input.
C7_Witness ==
    /\ EvalOver /\ Result = "true"
    /\ ast # NoAst
    /\ chars # <<>>
    /\ Outcome(instructions, Front(chars), 0, 0) = "true"
    /\ Outcome(instructions, <<>>, 0, 0) # "true"

\* C8: parse fails on every pattern with unbalanced parentheses: at an
\* unescaped ")" scanned with an empty group stack, and at the end of a
\* pattern with a group still open.
C8_UnbalancedFails ==
    /\ (ParseOver /\ Unbalanced(pattern)) => (ParseFailed /\ ast = NoAst)
    /\ (pos >= 1 /\ Unescaped(pattern, pos, ")") /\ Depth(pattern, pos - 1) = 0)
          => panic = "stack_pop"
    /\ (phase = "compile" /\ pos = Len(pattern)) => Depth(pattern, pos) = 0

\* C8 witness: a group was opened and closed, and parse failed at a further ")".
C8_Witness ==
    /\ phase = "done" /\ panic = "stack_pop"
    /\ \E i \in 1..(pos - 1) : Unescaped(pattern, i, "(")

\* C9: an unescaped quantifier replaces exactly the last node of the
\* concatenation buffer by that node wrapped in Star / Plus / Question and
\* leaves the rest alone; parse fails when the buffer is empty: at the start
\* of the pattern, right after "(" and right after "|".
C9_QuantifierWrapsLast ==
    /\ [][ParseQualifier =>
            IF seq = <<>> THEN panic' = "qualifier_pop"
            ELSE /\ panic' = ""
                 /\ Len(seq') = Len(seq)
                 /\ \A i \in 1..(Len(seq) - 1) : seq'[i] = seq[i]
                 /\ Last(seq').t = (CASE Cur = "*" -> "Star"
                                      [] Cur = "+" -> "Plus"
                                      [] Cur = "?" -> "Question")
                 /\ Last(seq').kids = <<Last(seq)>>
                 /\ seq_or' = seq_or /\ stack' = stack /\ is_escape' = is_escape]_vars
    /\ [](/\ pos >= 1
          /\ UnescapedIn(pattern, pos, QualifierChars)
          /\ \/ pos = 1
             \/ Unescaped(pattern, pos - 1, "(")
             \/ Unescaped(pattern, pos - 1, "|")
          => panic = "qualifier_pop")

\* C9 witness: a quantifier has just wrapped the last of at least two nodes.
C9_Witness ==
    /\ phase = "parse" /\ panic = ""
    /\ UnescapedIn(pattern, pos, QualifierChars)
    /\ Len(seq) >= 2
    /\ Last(seq).t \in {"Star", "Plus", "Question"}

\* C10: the character after an unescaped backslash is consumed by the escape:
\* one of \ ( ) | + * ? is appended as a literal Char and nothing else changes
\* (no wrap, no group push or pop, no split of the alternative); any other
\* character makes parse fail.
C10_EscapeIsLiteral ==
    /\ [][ParseEscaped =>
            /\ is_escape' = FALSE
            /\ IF Cur \in {"\\", "(", ")", "|", "+", "*", "?"}
               THEN /\ panic' = ""
                    /\ seq' = Append(seq, AstChar(Cur))
                    /\ seq_or' = seq_or /\ stack' = stack
               ELSE panic' = "parse_escape"]_vars
    /\ [](pos >= 1 /\ EscapedAt(pattern, pos)
          => IF pattern[pos] \in {"\\", "(", ")", "|", "+", "*", "?"}
             THEN /\ panic # "parse_escape"
                  /\ phase = "parse" => ~is_escape /\ Last(seq) = AstChar(pattern[pos])
             ELSE panic = "parse_escape")

\* C10 witness: an escaped "*" was appended as a literal after another node.
C10_Witness ==
    /\ phase = "parse" /\ panic = ""
    /\ pos >= 2 /\ EscapedAt(pattern, pos) /\ pattern[pos] = "*"
    /\ Len(seq) >= 2
    /\ Last(seq) = AstChar("*")

----------------------------------------------------------------------------
(* C11..C19 *)

\* Or(A1, Or(A2, Or(..., An))) of the alternatives A1, ..., An
RECURSIVE RightNested(_)
RightNested(alts) ==
    IF Len(alts) = 1 THEN alts[1]
    ELSE AstOr(Head(alts), RightNested(Tail(alts)))

\* the alternatives of the group or pattern that is being closed, in order
Closed == IF seq # <<>> THEN Append(seq_or, AstSeq(seq)) ELSE seq_or

\* A pattern of literals and "|" only that does not end with "|", and its
\* alternatives read off the text, each the Seq of its characters.
Flat(pat) ==
    /\ pat # <<>>
    /\ \A i \in 1..Len(pat) : pat[i] \in {"a", "b", "|"}
    /\ Last(pat) # "|"
RECURSIVE Alternatives(_, _)
Alternatives(pat, cur) ==
    IF pat = <<>> THEN <<AstSeq(cur)>>
    ELSE IF Head(pat) = "|" THEN <<AstSeq(cur)>> \o Alternatives(Tail(pat), <<>>)
    ELSE Alternatives(Tail(pat), Append(cur, AstChar(Head(pat))))

\* C11: when a group or the whole pattern has the alternatives A1, ..., An in
\* this order, n >= 2, parse produces Or(A1, Or(A2, Or(..., An))), each Ai the
\* Seq of that alternative's nodes; a single alternative is returned as its
\* Seq, without an Or.
C11_FoldRule ==
    /\ [][(ParseEnd /\ panic' = "") =>
            /\ ast' = RightNested(Closed)
            /\ \A i \in 1..Len(Closed) : Closed[i].t = "Seq"
            /\ Len(Closed) = 1 => ast'.t = "Seq"]_vars
    /\ [][(ParseClose /\ panic' = "") =>
            /\ seq' = Append(Last(stack).seq, RightNested(Closed))
            /\ \A i \in 1..Len(Closed) : Closed[i].t = "Seq"
            /\ Len(Closed) = 1 => Last(seq').t = "Seq"]_vars
    /\ [](phase = "compile" /\ Flat(pattern)
            => ast = RightNested(Alternatives(pattern, <<>>)))

\* C11 witness: a pattern of three alternatives was folded.
C11_Witness ==
    /\ phase = "compile"
    /\ Len(seq_or) = 2 /\ seq # <<>>
    /\ ast.t = "Or" /\ ast.kids[2].t = "Or"
    /\ ast.kids[1] = seq_or[1] /\ ast.kids[2].kids[1] = seq_or[2]

\* The pattern has a quantifier with nothing before it to wrap: an unescaped
\* quantifier at the start, right after an unescaped "(" or right after an
\* unescaped "|".
OrphanQualifier(pat) ==
    \E i \in 1..Len(pat) :
        /\ UnescapedIn(pat, i, QualifierChars)
        /\ i = 1 \/ Unescaped(pat, i - 1, "(") \/ Unescaped(pat, i - 1, "|")
\* The pattern has an escape of a character that cannot be escaped.
InvalidEscape(pat) ==
    \E i \in 1..Len(pat) : EscapedAt(pat, i) /\ pat[i] \notin EscapeChars
WellFormed(pat) == ~Unbalanced(pat) /\ ~OrphanQualifier(pat) /\ ~InvalidEscape(pat)

\* C12: for every pattern with balanced parentheses, no quantifier without a
\* preceding element and no invalid escape, the empty pattern and patterns
\* with an empty group "()" included, parse returns an AST.
C12_WellFormedParses ==
    (ParseOver /\ WellFormed(pattern)) => (~ParseFailed /\ ast # NoAst)

\* the Split instruction a call of eval stands at
SplitOf(f) == instructions[f.pc + 1]

\* C13: on Split(t1, t2) at input index i, eval first evaluates from (t1, i)
\* until that sub-search has resolved to true or false; the evaluation from
\* (t2, i) is started only after the t1 sub-search returned false, never when
\* it returned true, and at the same index i whatever the t1 sub-search consumed.
C13_SplitOrder ==
    /\ [][EvalSplit =>
            /\ panic' \in {"", "stack_overflow"}
            /\ panic' = "" =>
                 /\ frames' = Append(Append(Front(frames),
                                            [Last(frames) EXCEPT !.branch = 1]),
                                     Frame(CurInst.x, Last(frames).index))
                 /\ ret' = "none"]_vars
    /\ [][EvalFirstReturned =>
            /\ ret \in {"true", "false"}
            /\ ret = "true" => (frames' = Front(frames) /\ ret' = "true" /\ panic' = "")
            /\ (ret = "false" /\ panic' = "") =>
                 frames' = Append(Append(Front(frames),
                                         [Last(frames) EXCEPT !.branch = 2]),
                                  Frame(CurInst.y, Last(frames).index))]_vars
    /\ [][(\E k \in 1..Len(frames') :
              /\ frames'[k].branch = 2
              /\ k > Len(frames) \/ frames[k].branch # 2)
            => (EvalFirstReturned /\ ret = "false")]_vars
    /\ [][Len(frames') < Len(frames) => frames' = Front(frames)]_vars
    /\ [](phase = "eval" /\ panic = "" =>
            /\ \A k \in 1..(Len(frames) - 1) :
                 /\ frames[k].branch \in {1, 2}
                 /\ SplitOf(frames[k]).op = "Split"
                 /\ frames[k + 1].start_index = frames[k].index
                 /\ frames[k + 1].start_pc =
                      (IF frames[k].branch = 1 THEN SplitOf(frames[k]).x
                       ELSE SplitOf(frames[k]).y)
            /\ (frames # <<>> /\ Last(frames).branch \in {1, 2})
                 => ret \in {"true", "false"})

\* C13 witness: the t1 sub-search of a Split at index i consumed the character
\* at i and returned false, and the call of t2 stands at the same index i.
C13_Witness ==
    /\ phase = "eval" /\ panic = ""
    /\ \E k \in 1..(Len(frames) - 1) :
         LET f == frames[k] IN
         /\ f.branch = 2
         /\ instructions[SplitOf(f).x + 1].op = "Char"
         /\ f.index < Len(chars)
         /\ instructions[SplitOf(f).x + 1].c = chars[f.index + 1]
         /\ frames[k + 1].start_pc = SplitOf(f).y
         /\ frames[k + 1].start_index = f.index

\* The pieces of work that patch a placeholder, and the addresses recorded
\* by those of the given kinds that are still to be done.
SplitPatches == {"star_end", "question_end", "or_mid"}
JumpPatches == {"or_end"}
Recorded(ts, kinds) == {ts[i].n : i \in {j \in 1..Len(ts) : ts[j].k \in kinds}}

\* C14: during compile every Split or Jump emitted with a placeholder target
\* is patched exactly once before compile returns, in place at the address
\* recorded when it was emitted; no address is patched twice, patching never
\* changes the number of instructions, and no placeholder survives in the
\* returned program.
C14_PatchedOnce ==
    /\ [][(phase = "compile" /\ tasks # <<>>) =>
            LET tk == Head(tasks)
                N == Len(instructions)
            IN  /\ Len(instructions') >= N
                /\ \A a \in 0..(N - 1) :
                     instructions'[a + 1] # instructions[a + 1]
                        => (tk.k \in SplitPatches \cup JumpPatches /\ tk.n = a)
                /\ tk.k \in SplitPatches =>
                     /\ tk.n < N
                     /\ instructions[tk.n + 1].op = "Split"
                     /\ instructions[tk.n + 1].y = 0
                     /\ instructions'[tk.n + 1].op = "Split"
                     /\ instructions'[tk.n + 1].x = instructions[tk.n + 1].x
                     /\ instructions'[tk.n + 1].y # 0
                /\ tk.k \in JumpPatches =>
                     /\ tk.n < N
                     /\ instructions[tk.n + 1] = InstJump(0)
                     /\ instructions'[tk.n + 1].op = "Jump"
                     /\ instructions'[tk.n + 1].x # 0
                \* the Jump that gen_star and gen_or push before they patch
                /\ tk.k \in {"star_end", "or_mid"} =>
                     /\ Len(instructions') = N + 1
                     /\ instructions'[N + 1].op = "Jump"
                /\ tk.k \in {"question_end", "or_end"} => Len(instructions') = N
                \* the placeholder Jump of gen_or has its address recorded
                /\ tk.k = "or_mid" =>
                     (instructions'[N + 1] = InstJump(0)
                      /\ N \in Recorded(tasks', JumpPatches))
                /\ tk.k \in SplitPatches \cup JumpPatches =>
                     tk.n \notin Recorded(tasks', {tk.k})]_vars
    /\ [](phase \in {"compile", "ready"} =>
            /\ \A i, j \in 1..Len(tasks) :
                 (/\ i # j
                  /\ tasks[i].k \in SplitPatches \cup JumpPatches
                  /\ tasks[j].k \in SplitPatches \cup JumpPatches)
                    => tasks[i].n # tasks[j].n
            /\ \A a \in Recorded(tasks, SplitPatches) :
                 a < Len(instructions) /\ instructions[a + 1].op = "Split"
                                       /\ instructions[a + 1].y = 0
            /\ \A a \in Recorded(tasks, JumpPatches) :
                 a < Len(instructions) /\ instructions[a + 1] = InstJump(0)
            /\ \A a \in 0..(Len(instructions) - 1) :
                 (instructions[a + 1].op = "Split" /\ instructions[a + 1].y = 0)
                    => a \in Recorded(tasks, SplitPatches)
            /\ phase = "ready" => tasks = <<>>)

\* C14 witness: compile returned a program in which the placeholders of an
\* Or and of a quantifier inside it were patched.
C14_Witness ==
    /\ phase = "ready"
    /\ ast.t = "Or" /\ ast.kids[1].t \in {"Star", "Question"}
    /\ instructions[1].op = "Split" /\ instructions[1].y # 0
    /\ instructions[2].op = "Split" /\ instructions[2].y # 0
    /\ \E a \in 0..(Len(instructions) - 1) :
         instructions[a + 1].op = "Jump" /\ instructions[a + 1].x > a

\* The number of instructions of the code of an AST.
RECURSIVE CodeLen(_), CodeLenSeq(_)
CodeLen(a) ==
    CASE a.t = "Char" -> 1
      [] a.t = "Star" -> CodeLen(a.kids[1]) + 2
      [] a.t = "Plus" -> CodeLen(a.kids[1]) + 1
      [] a.t = "Question" -> CodeLen(a.kids[1]) + 1
      [] a.t = "Or" -> CodeLen(a.kids[1]) + CodeLen(a.kids[2]) + 2
      [] a.t = "Seq" -> CodeLenSeq(a.kids)
CodeLenSeq(v) == IF v = <<>> THEN 0 ELSE CodeLen(Head(v)) + CodeLenSeq(Tail(v))

\* The Or nodes of an AST whose code starts at address L, each as
\* <<address where its code starts, left, right>>.
RECURSIVE OrSites(_, _), OrSitesSeq(_, _)
OrSites(a, L) ==
    CASE a.t = "Char" -> {}
      [] a.t = "Star" -> OrSites(a.kids[1], L + 1)
      [] a.t = "Plus" -> OrSites(a.kids[1], L)
      [] a.t = "Question" -> OrSites(a.kids[1], L + 1)
      [] a.t = "Or" -> {<<L, a.kids[1], a.kids[2]>>}
                       \cup OrSites(a.kids[1], L + 1)
                       \cup OrSites(a.kids[2], L + CodeLen(a.kids[1]) + 2)
      [] a.t = "Seq" -> OrSitesSeq(a.kids, L)
OrSitesSeq(v, L) ==
    IF v = <<>> THEN {}
    ELSE OrSites(Head(v), L) \cup OrSitesSeq(Tail(v), L + CodeLen(Head(v)))

\* a piece of code moved d addresses up
Shift(prog, d) ==
    [i \in 1..Len(prog) |->
        CASE prog[i].op = "Jump" -> InstJump(prog[i].x + d)
          [] prog[i].op = "Split" -> InstSplit(prog[i].x + d, prog[i].y + d)
          [] OTHER -> prog[i]]
\* the code of an AST compiled on its own, from address 0, without the Match
CodeOf(a) == Front(Compile(a))

\* C15: the code of Or(left, right) starting at address L is Split(L+1, R) at
\* L, the code of left from L+1, Jump(E) at R-1, the code of right from R,
\* with R the address of the first instruction of right and E the address
\* right after the last instruction of right, however left and right nest.
C15_OrLayout ==
    phase = "ready" =>
        \A site \in OrSites(ast, 0) :
            LET L == site[1]
                left == site[2]
                right == site[3]
                R == L + CodeLen(left) + 2
                E == R + CodeLen(right)
            IN  /\ E < Len(instructions)
                /\ instructions[L + 1] = InstSplit(L + 1, R)
                /\ SubSeq(instructions, L + 2, R - 1) = Shift(CodeOf(left), L + 1)
                /\ instructions[R] = InstJump(E)
                /\ SubSeq(instructions, R + 1, E) = Shift(CodeOf(right), R)

\* C15 witness: compile returned the program of an AST with an Or whose code
\* starts past address 0.
C15_Witness ==
    /\ phase = "ready"
    /\ \E site \in OrSites(ast, 0) :
         site[1] >= 1 /\ instructions[site[1] + 1].op = "Split"

\* C16: at every point of compile, after each emitted instruction and up to
\* and including the moment compile returns, the compiler's p_counter equals
\* the length of the instruction sequence.
C16_CounterIsLength ==
    phase \in {"compile", "ready"} => p_counter = Len(instructions)

\* C17: in every evaluation eval(program, input, 0, 0) of a program produced by
\* compile, in every recursive call and loop iteration the program counter is
\* an address 0..N-1, so the instruction fetch never fails; a Char, which on
\* success advances the counter by one, is never the last instruction.
C17_PcValid ==
    ast # NoAst =>
        /\ panic # "eval_fetch"
        /\ \A k \in 1..Len(frames) : frames[k].pc \in 0..(Len(instructions) - 1)
        /\ phase \in {"ready", "eval", "done"} =>
             \A a \in 0..(Len(instructions) - 1) :
                 instructions[a + 1].op = "Char" => a + 1 < Len(instructions)

\* C17 witness: the last Char of a compiled program has just succeeded and
\* the counter stands on the instruction after it.
C17_Witness ==
    /\ phase = "eval" /\ panic = "" /\ ast # NoAst
    /\ frames # <<>>
    /\ LET f == Last(frames) IN
        /\ f.pc >= 1 /\ f.index >= 1
        /\ instructions[f.pc].op = "Char"
        /\ instructions[f.pc].c = chars[f.index]
        /\ \A a \in f.pc..(Len(instructions) - 1) : instructions[a + 1].op # "Char"

\* what parse came to, once it is over
ParseResult == [panic |-> panic, ast |-> ast]
\* the pattern without its character i
Remove(pat, i) == SubSeq(pat, 1, i - 1) \o SubSeq(pat, i + 1, Len(pat))
\* Character i is a "|" that ends the last alternative of its group or of the
\* pattern: the pattern ends there or the group is closed right after it.
ClosingBar(pat, i) ==
    /\ Unescaped(pat, i, "|")
    /\ i = Len(pat) \/ pat[i + 1] = ")"
\* something stands before character i in its group or pattern
AfterSomething(pat, i) == i > 1 /\ ~Unescaped(pat, i - 1, "(")
\* parse of "|X", and of "(|X)", is Or(Seq[], parse of X)
LeadingBarKept ==
    /\ (pattern # <<>> /\ pattern[1] = "|" /\ Parse(Tail(pattern)).panic = "")
          => ParseResult =
               [panic |-> "", ast |-> AstOr(AstSeq(<<>>), Parse(Tail(pattern)).ast)]
    /\ (/\ Len(pattern) >= 3
        /\ pattern[1] = "(" /\ pattern[2] = "|" /\ Unescaped(pattern, Len(pattern), ")")
        /\ Parse(SubSeq(pattern, 3, Len(pattern) - 1)).panic = "")
          => ParseResult =
               [panic |-> "",
                ast |-> AstSeq(<<AstOr(AstSeq(<<>>),
                                       Parse(SubSeq(pattern, 3, Len(pattern) - 1)).ast)>>)]

\* C18: an empty alternative is kept when a "|" follows it and dropped when it
\* is the last of a group or of the pattern: for a non-empty alternative list
\* X, parse of "X|" returns the AST of parse of "X", and parse of "|X" returns
\* Or(Seq[], ...).  This is the statement for every non-empty X.
C18_TrailingBarDropped ==
    ParseOver =>
        /\ \A i \in 1..Len(pattern) :
             (/\ ClosingBar(pattern, i) /\ AfterSomething(pattern, i)
              /\ Parse(Remove(pattern, i)).panic = "")
                => ParseResult = Parse(Remove(pattern, i))
        /\ LeadingBarKept

\* C18, amended: the same for every X that does not itself end with an empty
\* alternative, that is, with an unescaped "|".
C18_TrailingBarDroppedAfterNonEmpty ==
    ParseOver =>
        /\ \A i \in 1..Len(pattern) :
             (/\ ClosingBar(pattern, i) /\ AfterSomething(pattern, i)
              /\ ~Unescaped(pattern, i - 1, "|")
              /\ Parse(Remove(pattern, i)).panic = "")
                => ParseResult = Parse(Remove(pattern, i))
        /\ LeadingBarKept

\* C18 witness: a pattern of two alternatives followed by a final "|" was
\* parsed to the Or of the two.
C18_Witness ==
    /\ phase = "compile"
    /\ ClosingBar(pattern, Len(pattern)) /\ AfterSomething(pattern, Len(pattern))
    /\ ~Unescaped(pattern, Len(pattern) - 1, "|")
    /\ ast.t = "Or" /\ ast.kids[2].t = "Seq" /\ ast.kids[2].kids # <<>>
    /\ ast = Parse(Front(pattern)).ast

\* C19: a pattern that ends with an unescaped backslash, an escape with no
\* character after it, is not rejected for it: the pending escape flag is
\* dropped at the end of the pattern and parse comes to what it comes to on
\* the pattern without that backslash, the same AST or the same failure.
C19_TrailingBackslashDropped ==
    (ParseOver /\ Unescaped(pattern, Len(pattern), "\\"))
        => ParseResult = Parse(Front(pattern))

\* C19 witness: parse returned an AST for a pattern that ends with a pending
\* escape.
C19_Witness ==
    /\ phase = "compile" /\ is_escape
    /\ Len(pattern) >= 2 /\ Unescaped(pattern, Len(pattern), "\\")
    /\ ast # NoAst /\ ast.kids # <<>> /\ ast = Parse(Front(pattern)).ast

====
